---- MODULE Spec2Model ----
(***************************************************************************)
(* Diesel's migration engine (diesel/src/migrations/mod.rs) as a state     *)
(* machine.  The database holds the tracking table                         *)
(* __diesel_schema_migrations and the durable effects of the up and down   *)
(* procedures; the filesystem holds the migrations directories.  Every     *)
(* public operation is a call that advances one statement at a time, and   *)
(* every statement that touches the database or the filesystem may fail.   *)
(***************************************************************************)
EXTENDS Integers, Sequences, FiniteSets, TLC

\* ------------------------------------------------------------------ bounds
\* Versions that a caller may name in a single-version operation.
MaxVersion == 3
\* Number of public operations started in one behaviour.
MaxCalls == 4
\* Depth of the paths a directory search starts from.
MaxDepth == 2
\* Number of migrations directories in a filesystem that is searched.
MaxMigrationsDirs == 2
\* Number of to_sql calls on one writer.
MaxWrites == 3

Versions == 1..MaxVersion
\* Connections that may drive the engine.
Procs == {1, 2}

\* ------------------------------------------------------------- filesystem
\* A path is the sequence of its components; <<>> is the filesystem root.
Root == <<>>
\* One entry of a migrations directory: dot = the name starts with ".",
\* ver = the version token of the name (0: the name is not
\* {version}_{name}), up / down = up.sql / down.sql exist in the folder.
Folder(v) == [dot |-> FALSE, ver |-> v, up |-> TRUE, down |-> TRUE]
HiddenEntry == [dot |-> TRUE, ver |-> 0, up |-> FALSE, down |-> FALSE]
HiddenFolder(v) == [dot |-> TRUE, ver |-> v, up |-> TRUE, down |-> TRUE]
NoDownFolder(v) == [dot |-> FALSE, ver |-> v, up |-> TRUE, down |-> FALSE]

\* The filesystems a behaviour may start from: the working directory and,
\* for every directory d holding a "migrations" directory, the entries of
\* d/migrations in the order read_dir yields them.
Filesystems ==
  { [cwd |-> <<"a", "b">>,
     dirs |-> (<<"a">> :> <<Folder(2), Folder(1), Folder(3)>>)],
    [cwd |-> <<"a", "b">>,
     dirs |-> (<<"a", "b">> :> <<Folder(1), HiddenEntry, Folder(2),
                                 HiddenFolder(3)>>)
              @@ (Root :> <<Folder(3)>>)],
    [cwd |-> <<"a">>,
     dirs |-> (Root :> <<Folder(1), NoDownFolder(2), Folder(3)>>)],
    [cwd |-> Root,
     dirs |-> (Root :> <<Folder(2), Folder(1), Folder(2)>>)],
    [cwd |-> <<"a">>,
     dirs |-> (<<"a", "b">> :> <<Folder(1)>>)] }

\* ------------------------------------------------------------------ state
VARIABLES
  fs,                 \* the filesystem (one of Filesystems)
  table_exists,       \* __diesel_schema_migrations has been created
  rows,               \* its rows (the version column), in insertion order
  schema,             \* committed procedure executions, oldest first
  pc,                 \* per connection: the statement about to execute
  op,                 \* per connection: the public operation in progress
  ver,                \* per connection: the `ver` argument (0: none)
  already_run,        \* per connection: previously_run_migration_versions
  migrations_dir,     \* per connection: result of find_migrations_directory
  all_migrations,     \* per connection: result of migrations_in_directory
  pending_migrations, \* per connection: pending units not yet iterated
  migration,          \* per connection: the unit being run or reverted
  txn,                \* per connection: the open transaction's writes
  result,             \* per connection: what the last call returned
  returned,           \* per connection: the version the result carries,
                      \* Ok(version) or UnknownMigrationVersion(version)
                      \* (0: none)
  \* history of the current call, kept for the properties
  pre,                \* the database and filesystem when the call started
  attempted,          \* versions whose transaction was opened, in order
  committed,          \* versions whose transaction committed, in order
  fault,              \* the injected failure that ended the call
  last,               \* the previous call: op, result, returned, pre
  ncalls,             \* calls started so far
  \* the value codec
  out,                \* the writer: the bytes written so far
  is_null,            \* what the last to_sql returned: "No", "Err", "none"
  to_sql_calls,       \* the to_sql calls that returned Ok, in call order
  out_before          \* the writer when the last to_sql was called

codecvars == <<out, is_null, to_sql_calls, out_before>>
fsvars == <<fs>>
dbvars == <<table_exists, rows, schema>>
locals == <<already_run, migrations_dir, all_migrations, pending_migrations,
            migration, txn>>
history == <<pre, attempted, committed, last, ncalls>>
vars == <<fs, table_exists, rows, schema, pc, op, ver, already_run,
          migrations_dir, all_migrations, pending_migrations, migration, txn,
          result, returned, pre, attempted, committed, fault, last, ncalls,
          out, is_null, to_sql_calls, out_before>>

\* ----------------------------------------------------------------- helpers
Range(s) == {s[i] : i \in DOMAIN s}
Max(S) == CHOOSE x \in S : \A y \in S : y <= x
VersionsOf(ms) == [i \in DOMAIN ms |-> ms[i].version]

NoMigration == [version |-> 0, path |-> 0]
NoTxn == [stmts |-> <<>>, ins |-> <<>>, del |-> {}]
NoDir == <<"?">>

Ok(v) == [ok |-> TRUE, val |-> v]
Err(e) == [ok |-> FALSE, err |-> e]

\* ---------------------------------------------------------- pure functions
\* path.parent(): the path without its last component.
Parent(path) == SubSeq(path, 1, Len(path) - 1)

\* A search that gives up at the root without looking at /migrations.
RECURSIVE search_stops_before_root(_, _)
search_stops_before_root(f, path) ==
  IF path = Root
    THEN Err("MigrationDirectoryNotFound")
    ELSE IF path \in DOMAIN f.dirs
           THEN Ok(path)
           ELSE search_stops_before_root(f, Parent(path))

\* search_for_migrations_directory: path/migrations if it is a directory,
\* else the search from the parent; MigrationDirectoryNotFound at the root.
\* Ok(d) stands for the path d/migrations.
RECURSIVE search_for_migrations_directory(_, _)
search_for_migrations_directory(f, path) ==
  IF path \in DOMAIN f.dirs
    THEN Ok(path)
    ELSE IF path = Root
           THEN Err("MigrationDirectoryNotFound")
           ELSE search_for_migrations_directory(f, Parent(path))

\* migration_from: the unit of one folder, or MalformedMigrationFolder when
\* the name is not {version}_{name} or up.sql / down.sql is missing.
migration_from(entry, i) ==
  IF entry.ver = 0 \/ ~entry.up \/ ~entry.down
    THEN Err("MalformedMigrationFolder")
    ELSE Ok([version |-> entry.ver, path |-> i])

\* The enumeration with the units pushed to the front of the list.
migrations_in_directory_reversed(entries) ==
  LET items[i \in 0..Len(entries)] ==
        IF i = 0 THEN <<>>
        ELSE IF ~entries[i].dot
               THEN <<migration_from(entries[i], i)>> \o items[i - 1]
               ELSE items[i - 1]
      all == items[Len(entries)]
      bad == {i \in DOMAIN all : ~all[i].ok}
  IN IF bad # {}
       THEN all[CHOOSE i \in bad : \A j \in bad : i <= j]
       ELSE Ok([i \in DOMAIN all |-> all[i].val])

\* An enumeration that drops the folders migration_from rejects.
migrations_in_directory_skip_malformed(entries) ==
  LET items[i \in 0..Len(entries)] ==
        IF i = 0 THEN <<>>
        ELSE IF ~entries[i].dot /\ migration_from(entries[i], i).ok
               THEN Append(items[i - 1], migration_from(entries[i], i))
               ELSE items[i - 1]
      all == items[Len(entries)]
  IN Ok([i \in DOMAIN all |-> all[i].val])

\* An enumeration that parses the hidden entries too.
migrations_in_directory_with_hidden(entries) ==
  LET all == [i \in DOMAIN entries |-> migration_from(entries[i], i)]
      bad == {i \in DOMAIN all : ~all[i].ok}
  IN IF bad # {}
       THEN all[CHOOSE i \in bad : \A j \in bad : i <= j]
       ELSE Ok([i \in DOMAIN all |-> all[i].val])

\* migrations_in_directory: every entry whose name does not start with "."
\* goes through migration_from; collect() yields the first error, else the
\* units in the order read_dir produced them.
migrations_in_directory(entries) ==
  LET items[i \in 0..Len(entries)] ==
        IF i = 0 THEN <<>>
        ELSE IF ~entries[i].dot
               THEN Append(items[i - 1], migration_from(entries[i], i))
               ELSE items[i - 1]
      all == items[Len(entries)]
      bad == {i \in DOMAIN all : ~all[i].ok}
  IN IF bad # {}
       THEN all[CHOOSE i \in bad : \A j \in bad : i <= j]
       ELSE Ok([i \in DOMAIN all |-> all[i].val])

\* A filter that keeps every unit.
filter_nothing(all, run) == all
\* A filter that keeps only the units later than the latest one run.
filter_later_than_latest(all, run) ==
  SelectSeq(all, LAMBDA m : \A r \in run : m.version > r)

\* The filter of run_pending_migrations: the units whose version is not in
\* already_run, in the order of all_migrations.  The iterator is lazy, but
\* both of its inputs are snapshots, so it is computed at once.
pending_filter(all, run) ==
  SelectSeq(all, LAMBDA m : m.version \notin run)

\* A find that falls back to the last unit when no version matches.
find_version_or_last(all, v) ==
  LET hit == {i \in DOMAIN all : all[i].version = v}
  IN IF hit = {}
       THEN IF all = <<>>
              THEN [ok |-> FALSE, err |-> "UnknownMigrationVersion", ver |-> v]
              ELSE Ok(all[Len(all)])
       ELSE Ok(all[CHOOSE i \in hit : \A j \in hit : i <= j])

\* The find of migration_with_version: the first unit with that version,
\* or UnknownMigrationVersion(ver).
find_version(all, v) ==
  LET hit == {i \in DOMAIN all : all[i].version = v}
  IN IF hit = {}
       THEN [ok |-> FALSE, err |-> "UnknownMigrationVersion", ver |-> v]
       ELSE Ok(all[CHOOSE i \in hit : \A j \in hit : i <= j])

\* min(version) in place of max(version).
min_version(rs) ==
  IF rs = <<>> THEN Err("QueryExecutionError")
               ELSE Ok(CHOOSE x \in Range(rs) : \A y \in Range(rs) : x <= y)

\* max(version) with the NULL of an empty table read as a default version.
max_version_or_default(rs) ==
  IF rs = <<>> THEN Ok(1) ELSE Ok(Max(Range(rs)))

\* max(version) over the tracking table; the query yields NULL on an empty
\* table, which does not load as a String.
max_version(rs) ==
  IF rs = <<>> THEN Err("QueryExecutionError") ELSE Ok(Max(Range(rs)))

\* ------------------------------------------------------------ transactions
\* The rows a statement inside transaction t sees.
Visible(t) == (Range(rows) \ t.del) \cup Range(t.ins)
\* version VARCHAR PRIMARY KEY: an insert of v inside t hits an existing key.
no_primary_key(t, v) == FALSE
primary_key_violated(t, v) == v \in Visible(t)
\* The tracking table and the schema after transaction t commits.
CommitRows(t) == SelectSeq(rows, LAMBDA r : r \notin t.del) \o t.ins
CommitSchema(t) == schema \o t.stmts

\* ------------------------------------------------------------------- Init
Init ==
  /\ fs \in Filesystems
  /\ table_exists = FALSE
  /\ rows = <<>>
  /\ schema = <<>>
  /\ pc = [p \in Procs |-> "idle"]
  /\ op = [p \in Procs |-> "none"]
  /\ ver = [p \in Procs |-> 0]
  /\ already_run = [p \in Procs |-> {}]
  /\ migrations_dir = [p \in Procs |-> NoDir]
  /\ all_migrations = [p \in Procs |-> <<>>]
  /\ pending_migrations = [p \in Procs |-> <<>>]
  /\ migration = [p \in Procs |-> NoMigration]
  /\ txn = [p \in Procs |-> NoTxn]
  /\ result = [p \in Procs |-> "none"]
  /\ returned = [p \in Procs |-> 0]
  /\ pre = [p \in Procs |-> [table_exists |-> FALSE, rows |-> <<>>,
                             schema |-> <<>>, fs |-> fs]]
  /\ attempted = [p \in Procs |-> <<>>]
  /\ committed = [p \in Procs |-> <<>>]
  /\ fault = [p \in Procs |-> "none"]
  /\ last = [p \in Procs |-> [op |-> "none", result |-> "none",
                              returned |-> 0, rows |-> <<>>]]
  /\ ncalls = 0
  /\ out = <<>>
  /\ is_null = "none"
  /\ to_sql_calls = <<>>
  /\ out_before = <<>>

\* ------------------------------------------------------- calls and returns
\* A public operation o starts on connection p with argument v.
Call(p, o, v, first) ==
  /\ pc[p] = "idle"
  /\ ncalls < MaxCalls
  /\ pc' = [pc EXCEPT ![p] = first]
  /\ op' = [op EXCEPT ![p] = o]
  /\ ver' = [ver EXCEPT ![p] = v]
  /\ already_run' = [already_run EXCEPT ![p] = {}]
  /\ migrations_dir' = [migrations_dir EXCEPT ![p] = NoDir]
  /\ all_migrations' = [all_migrations EXCEPT ![p] = <<>>]
  /\ pending_migrations' = [pending_migrations EXCEPT ![p] = <<>>]
  /\ migration' = [migration EXCEPT ![p] = NoMigration]
  /\ txn' = [txn EXCEPT ![p] = NoTxn]
  /\ result' = [result EXCEPT ![p] = "none"]
  /\ returned' = [returned EXCEPT ![p] = 0]
  /\ pre' = [pre EXCEPT ![p] = [table_exists |-> table_exists,
                                rows |-> rows, schema |-> schema,
                                fs |-> fs]]
  /\ attempted' = [attempted EXCEPT ![p] = <<>>]
  /\ committed' = [committed EXCEPT ![p] = <<>>]
  /\ fault' = [fault EXCEPT ![p] = "none"]
  /\ last' = [last EXCEPT ![p] = [op |-> op[p], result |-> result[p],
                                  returned |-> returned[p],
                                  rows |-> pre[p].rows]]
  /\ ncalls' = ncalls + 1
  /\ UNCHANGED <<codecvars, fsvars, dbvars>>

\* The operation on connection p returns r; f names the injected failure,
\* if one caused the return.
Return(p, r, f) ==
  /\ pc' = [pc EXCEPT ![p] = "idle"]
  /\ result' = [result EXCEPT ![p] = r]
  /\ fault' = [fault EXCEPT ![p] = f]

run_pending_migrations(p) ==
  Call(p, "run_pending_migrations", 0, "create")

revert_latest_migration(p) ==
  Call(p, "revert_latest_migration", 0, "create")

run_migration_with_version(p, v) ==
  Call(p, "run_migration_with_version", v, "find")

revert_migration_with_version(p, v) ==
  Call(p, "revert_migration_with_version", v, "find")


\* ------------------------------------------------------------------ steps
\* A table creation that replaces an existing table by an empty one.
create_schema_migrations_table_anew(p) ==
  /\ pc[p] = "create"
  /\ \/ /\ table_exists' = TRUE
        /\ rows' = <<>>
        /\ pc' = [pc EXCEPT ![p] =
                    IF op[p] = "run_pending_migrations" THEN "load"
                                                        ELSE "latest"]
        /\ UNCHANGED <<schema, result, fault>>
     \/ /\ Return(p, "QueryExecutionError", "db")
        /\ UNCHANGED dbvars
  /\ UNCHANGED <<codecvars, fsvars, op, ver, locals, returned, history>>

\* create_schema_migrations_table_if_needed: CREATE TABLE IF NOT EXISTS,
\* outside any transaction.
create_schema_migrations_table_if_needed(p) ==
  /\ pc[p] = "create"
  /\ \/ /\ table_exists' = TRUE
        /\ pc' = [pc EXCEPT ![p] =
                    IF op[p] = "run_pending_migrations" THEN "load"
                                                        ELSE "latest"]
        /\ UNCHANGED <<rows, schema, result, fault>>
     \/ /\ Return(p, "QueryExecutionError", "db")
        /\ UNCHANGED dbvars
  /\ UNCHANGED <<codecvars, fsvars, op, ver, locals, returned, history>>

\* previously_run_migration_versions: the version column as a set.
previously_run_migration_versions(p) ==
  /\ pc[p] = "load"
  /\ \/ /\ already_run' = [already_run EXCEPT ![p] = Range(rows)]
        /\ pc' = [pc EXCEPT ![p] = "find"]
        /\ UNCHANGED <<result, fault>>
     \/ /\ Return(p, "QueryExecutionError", "db")
        /\ UNCHANGED already_run
  /\ UNCHANGED <<codecvars,
                 fsvars, dbvars, op, ver, migrations_dir, all_migrations,
                 pending_migrations, migration, txn, returned, history>>

\* latest_run_migration_version, and the argument revert_latest_migration
\* hands to revert_migration_with_version.
latest_run_migration_version(p) ==
  /\ pc[p] = "latest"
  /\ LET latest == max_version(rows)
     IN \/ /\ latest.ok
           /\ ver' = [ver EXCEPT ![p] = latest.val]
           /\ pc' = [pc EXCEPT ![p] = "find"]
           /\ UNCHANGED <<result, fault>>
        \/ /\ ~latest.ok
           /\ Return(p, latest.err, "none")
           /\ UNCHANGED ver
        \/ /\ Return(p, "QueryExecutionError", "db")
           /\ UNCHANGED ver
  /\ UNCHANGED <<codecvars, fsvars, dbvars, op, locals, returned, history>>

\* find_migrations_directory: the search from env::current_dir().
find_migrations_directory(p) ==
  /\ pc[p] = "find"
  /\ LET dir == search_for_migrations_directory(fs, fs.cwd)
     IN \/ /\ dir.ok
           /\ migrations_dir' = [migrations_dir EXCEPT ![p] = dir.val]
           /\ pc' = [pc EXCEPT ![p] = "read"]
           /\ UNCHANGED <<result, fault>>
        \/ /\ ~dir.ok
           /\ Return(p, dir.err, "none")
           /\ UNCHANGED migrations_dir
        \/ /\ Return(p, "FilesystemError", "io")
           /\ UNCHANGED migrations_dir
  /\ UNCHANGED <<codecvars,
                 fsvars, dbvars, op, ver, already_run, all_migrations,
                 pending_migrations, migration, txn, returned, history>>

\* Lines 93-96 of run_pending_migrations: enumerate, then filter.
read_pending_migrations(p) ==
  /\ pc[p] = "read"
  /\ op[p] = "run_pending_migrations"
  /\ LET all == migrations_in_directory(fs.dirs[migrations_dir[p]])
     IN \/ /\ all.ok
           /\ all_migrations' = [all_migrations EXCEPT ![p] = all.val]
           /\ pending_migrations' = [pending_migrations EXCEPT ![p] =
                                       pending_filter(all.val, already_run[p])]
           /\ pc' = [pc EXCEPT ![p] = "loop"]
           /\ UNCHANGED <<result, fault>>
        \/ /\ ~all.ok
           /\ Return(p, all.err, "none")
           /\ UNCHANGED <<all_migrations, pending_migrations>>
        \/ /\ Return(p, "FilesystemError", "io")
           /\ UNCHANGED <<all_migrations, pending_migrations>>
  /\ UNCHANGED <<codecvars,
                 fsvars, dbvars, op, ver, already_run, migrations_dir,
                 migration, txn, returned, history>>

\* Lines 128-135 of migration_with_version: enumerate, then find; the unit
\* found goes to run_migration or revert_migration.
migration_with_version(p) ==
  /\ pc[p] = "read"
  /\ op[p] # "run_pending_migrations"
  /\ LET all == migrations_in_directory(fs.dirs[migrations_dir[p]])
         m == find_version(all.val, ver[p])
     IN \/ /\ all.ok
           /\ m.ok
           /\ all_migrations' = [all_migrations EXCEPT ![p] = all.val]
           /\ migration' = [migration EXCEPT ![p] = m.val]
           /\ pc' = [pc EXCEPT ![p] =
                       IF op[p] = "run_migration_with_version" THEN "run"
                                                               ELSE "revert"]
           /\ UNCHANGED <<result, returned, fault>>
        \/ /\ all.ok
           /\ ~m.ok
           /\ all_migrations' = [all_migrations EXCEPT ![p] = all.val]
           /\ Return(p, m.err, "none")
           /\ returned' = [returned EXCEPT ![p] = m.ver]
           /\ UNCHANGED migration
        \/ /\ ~all.ok
           /\ Return(p, all.err, "none")
           /\ UNCHANGED <<all_migrations, migration, returned>>
        \/ /\ Return(p, "FilesystemError", "io")
           /\ UNCHANGED <<all_migrations, migration, returned>>
  /\ UNCHANGED <<codecvars,
                 fsvars, dbvars, op, ver, already_run, migrations_dir,
                 pending_migrations, txn, history>>

\* A loop that returns Ok(()) after the first unit it committed.
run_migrations_first_only(p) ==
  /\ pc[p] = "loop"
  /\ \/ /\ pending_migrations[p] # <<>>
        /\ committed[p] = <<>>
        /\ migration' = [migration EXCEPT ![p] = Head(pending_migrations[p])]
        /\ pending_migrations' = [pending_migrations EXCEPT ![p] =
                                    Tail(pending_migrations[p])]
        /\ pc' = [pc EXCEPT ![p] = "run"]
        /\ UNCHANGED <<result, fault>>
     \/ /\ pending_migrations[p] = <<>> \/ committed[p] # <<>>
        /\ Return(p, "Ok", "none")
        /\ UNCHANGED <<migration, pending_migrations>>
  /\ UNCHANGED <<codecvars,
                 fsvars, dbvars, op, ver, already_run, migrations_dir,
                 all_migrations, txn, returned, history>>

\* run_migrations: the next pending unit goes to run_migration; Ok(()) when
\* the iterator is exhausted.
run_migrations(p) ==
  /\ pc[p] = "loop"
  /\ \/ /\ pending_migrations[p] # <<>>
        /\ migration' = [migration EXCEPT ![p] = Head(pending_migrations[p])]
        /\ pending_migrations' = [pending_migrations EXCEPT ![p] =
                                    Tail(pending_migrations[p])]
        /\ pc' = [pc EXCEPT ![p] = "run"]
        /\ UNCHANGED <<result, fault>>
     \/ /\ pending_migrations[p] = <<>>
        /\ Return(p, "Ok", "none")
        /\ UNCHANGED <<migration, pending_migrations>>
  /\ UNCHANGED <<codecvars,
                 fsvars, dbvars, op, ver, already_run, migrations_dir,
                 all_migrations, txn, returned, history>>

\* A statement of the transaction closure failed with e: the closure
\* returns Err, the transaction rolls back, and the try! of run_migrations
\* (or the and_then of the single-version operation) returns the error.
transaction_err_continue(p, e, f) ==
  /\ txn' = [txn EXCEPT ![p] = NoTxn]
  /\ IF op[p] = "run_pending_migrations"
       THEN pc' = [pc EXCEPT ![p] = "loop"] /\ UNCHANGED <<result, fault>>
       ELSE Return(p, e, f)
transaction_err(p, e, f) ==
  /\ txn' = [txn EXCEPT ![p] = NoTxn]
  /\ Return(p, e, f)

\* try!(migration.run(conn)) when up.sql fails.
run_err_swallowed(p) ==
  /\ pc' = [pc EXCEPT ![p] = "insert"]
  /\ UNCHANGED <<txn, result, fault>>
run_err(p) == transaction_err(p, "QueryExecutionError", "proc")

\* run_migration, lines 190-192: the transaction opens and migration.run
\* executes up.sql in it; its failure leaves the closure with Err, which
\* rolls the transaction back.
migration_run(p) ==
  /\ pc[p] = "run"
  /\ attempted' = [attempted EXCEPT ![p] = Append(@, migration[p].version)]
  /\ \/ /\ txn' = [txn EXCEPT ![p].stmts =
                     Append(@, <<"up", migration[p].version>>)]
        /\ pc' = [pc EXCEPT ![p] = "insert"]
        /\ UNCHANGED <<result, fault>>
     \/ run_err(p)
  /\ UNCHANGED <<codecvars,
                 fsvars, dbvars, op, ver, already_run, migrations_dir,
                 all_migrations, pending_migrations, migration, returned,
                 pre, committed, last, ncalls>>

\* run_migration, lines 193-195: the insert of the version into the tracking
\* table.  It fails when the table is missing or the primary key exists,
\* and waits while another transaction holds an uncommitted row of it.
insert_version(p) ==
  /\ pc[p] = "insert"
  /\ LET v == migration[p].version
     IN /\ \A q \in Procs \ {p} : v \notin Range(txn[q].ins)
        /\ \/ /\ table_exists
              /\ ~primary_key_violated(txn[p], v)
              /\ txn' = [txn EXCEPT ![p].ins = Append(@, v)]
              /\ pc' = [pc EXCEPT ![p] = "commit_run"]
              /\ UNCHANGED <<result, fault>>
           \/ /\ ~table_exists \/ primary_key_violated(txn[p], v)
              /\ transaction_err(p, "QueryExecutionError", "none")
           \/ transaction_err(p, "QueryExecutionError", "db")
  /\ UNCHANGED <<codecvars,
                 fsvars, dbvars, op, ver, already_run, migrations_dir,
                 all_migrations, pending_migrations, migration, returned,
                 history>>

\* run_migration, lines 190 and 196-197: the closure returned Ok(()), so the
\* transaction commits; a commit that fails leaves nothing behind.
commit_run(p) ==
  /\ pc[p] = "commit_run"
  /\ \/ /\ rows' = CommitRows(txn[p])
        /\ schema' = CommitSchema(txn[p])
        /\ committed' = [committed EXCEPT ![p] =
                           Append(@, migration[p].version)]
        /\ \/ /\ op[p] = "run_pending_migrations"
              /\ pc' = [pc EXCEPT ![p] = "loop"]
              /\ UNCHANGED <<result, fault>>
           \/ /\ op[p] # "run_pending_migrations"
              /\ Return(p, "Ok", "none")
     \/ /\ Return(p, "TransactionError", "db")
        /\ UNCHANGED <<rows, schema, committed>>
  /\ txn' = [txn EXCEPT ![p] = NoTxn]
  /\ UNCHANGED <<codecvars,
                 fsvars, table_exists, op, ver, already_run, migrations_dir,
                 all_migrations, pending_migrations, migration, returned,
                 pre, attempted, last, ncalls>>

\* try!(migration.revert(conn)) when down.sql fails.
revert_err_swallowed(p) ==
  /\ pc' = [pc EXCEPT ![p] = "delete"]
  /\ UNCHANGED <<txn, result, fault>>
revert_err(p) == transaction_err(p, "QueryExecutionError", "proc")

\* revert_migration, lines 203-205: the transaction opens and
\* migration.revert executes down.sql in it.
migration_revert(p) ==
  /\ pc[p] = "revert"
  /\ attempted' = [attempted EXCEPT ![p] = Append(@, migration[p].version)]
  /\ \/ /\ txn' = [txn EXCEPT ![p].stmts =
                     Append(@, <<"down", migration[p].version>>)]
        /\ pc' = [pc EXCEPT ![p] = "delete"]
        /\ UNCHANGED <<result, fault>>
     \/ revert_err(p)
  /\ UNCHANGED <<codecvars,
                 fsvars, dbvars, op, ver, already_run, migrations_dir,
                 all_migrations, pending_migrations, migration, returned,
                 pre, committed, last, ncalls>>

\* A delete that fails when it matches no row.
delete_version_strict(p) ==
  /\ pc[p] = "delete"
  /\ \/ /\ table_exists
        /\ migration[p].version \in Visible(txn[p])
        /\ txn' = [txn EXCEPT ![p].del = @ \cup {migration[p].version}]
        /\ pc' = [pc EXCEPT ![p] = "commit_revert"]
        /\ UNCHANGED <<result, fault>>
     \/ /\ ~table_exists \/ migration[p].version \notin Visible(txn[p])
        /\ transaction_err(p, "QueryExecutionError", "none")
     \/ transaction_err(p, "QueryExecutionError", "db")
  /\ UNCHANGED <<codecvars,
                 fsvars, dbvars, op, ver, already_run, migrations_dir,
                 all_migrations, pending_migrations, migration, returned,
                 history>>

\* revert_migration, lines 206-207: the delete of the rows with that
\* version; no matching row is not an error, a missing table is.
delete_version(p) ==
  /\ pc[p] = "delete"
  /\ \/ /\ table_exists
        /\ txn' = [txn EXCEPT ![p].del = @ \cup {migration[p].version}]
        /\ pc' = [pc EXCEPT ![p] = "commit_revert"]
        /\ UNCHANGED <<result, fault>>
     \/ /\ ~table_exists
        /\ transaction_err(p, "QueryExecutionError", "none")
     \/ transaction_err(p, "QueryExecutionError", "db")
  /\ UNCHANGED <<codecvars,
                 fsvars, dbvars, op, ver, already_run, migrations_dir,
                 all_migrations, pending_migrations, migration, returned,
                 history>>

\* revert_migration, lines 203 and 208-210: the transaction commits;
\* revert_latest_migration maps the Ok to the version it reverted.
commit_revert(p) ==
  /\ pc[p] = "commit_revert"
  /\ \/ /\ rows' = CommitRows(txn[p])
        /\ schema' = CommitSchema(txn[p])
        /\ committed' = [committed EXCEPT ![p] =
                           Append(@, migration[p].version)]
        /\ returned' = [returned EXCEPT ![p] =
                          IF op[p] = "revert_latest_migration" THEN ver[p]
                                                               ELSE 0]
        /\ Return(p, "Ok", "none")
     \/ /\ Return(p, "TransactionError", "db")
        /\ UNCHANGED <<rows, schema, committed, returned>>
  /\ txn' = [txn EXCEPT ![p] = NoTxn]
  /\ UNCHANGED <<codecvars,
                 fsvars, table_exists, op, ver, already_run, migrations_dir,
                 all_migrations, pending_migrations, migration,
                 pre, attempted, last, ncalls>>

\* --------------------------------------------------------- specifications
Step(p) ==
  \/ run_pending_migrations(p)
  \/ revert_latest_migration(p)
  \/ \E v \in Versions : run_migration_with_version(p, v)
  \/ \E v \in Versions : revert_migration_with_version(p, v)
  \/ create_schema_migrations_table_if_needed(p)
  \/ previously_run_migration_versions(p)
  \/ latest_run_migration_version(p)
  \/ find_migrations_directory(p)
  \/ read_pending_migrations(p)
  \/ migration_with_version(p)
  \/ run_migrations(p)
  \/ migration_run(p)
  \/ insert_version(p)
  \/ commit_run(p)
  \/ migration_revert(p)
  \/ delete_version(p)
  \/ commit_revert(p)

\* One connection drives the engine (the single-writer usage the design
\* assumes).
Next == Step(1)

Spec == Init /\ [][Next]_vars

\* ------------------------------------------------------------- properties
\* The call on connection p has returned.
Returned(p) == pc[p] = "idle" /\ result[p] # "none"

\* The directory the calls of this behaviour find, read off the filesystem:
\* its entries, its entries that are not hidden, and their versions.
DiskFound == search_for_migrations_directory(fs, fs.cwd).ok
DiskEntries ==
  IF DiskFound THEN fs.dirs[search_for_migrations_directory(fs, fs.cwd).val]
               ELSE <<>>
DiskUnits == SelectSeq(DiskEntries, LAMBDA e : ~e.dot)
DiskWellFormed ==
  /\ DiskFound
  /\ \A i \in DOMAIN DiskUnits :
       DiskUnits[i].ver # 0 /\ DiskUnits[i].up /\ DiskUnits[i].down
DiskVersions == [i \in DOMAIN DiskUnits |-> DiskUnits[i].ver]
DiskDistinct ==
  \A i, j \in DOMAIN DiskVersions : DiskVersions[i] = DiskVersions[j] => i = j

\* The units pending when the call on p started, in enumeration order.
PendingAtCall(p) ==
  SelectSeq(DiskVersions, LAMBDA v : v \notin Range(pre[p].rows))

Ups(vs) == [i \in DOMAIN vs |-> <<"up", vs[i]>>]
Without(rs, v) == SelectSeq(rs, LAMBDA r : r # v)
\* The effects of v's up procedure are in the database: the last committed
\* procedure of v is its up.
UpDurable(v) ==
  LET idx == {i \in DOMAIN schema : schema[i][2] = v}
  IN idx # {} /\ schema[Max(idx)][1] = "up"

\* C1: no version has its up procedure committed twice without a committed
\* revert of it in between: the tracking table never holds a version twice,
\* two committed ups of one version are separated by a committed down of it,
\* and a transaction about to commit an up is for a version that is not in
\* the tracking table.
C1_RunsAtMostOnce ==
  /\ \A i, j \in DOMAIN rows : rows[i] = rows[j] => i = j
  /\ \A i, j \in DOMAIN schema :
       (i < j /\ schema[i][1] = "up" /\ schema[j] = schema[i])
         => \E k \in (i + 1)..(j - 1) : schema[k] = <<"down", schema[i][2]>>
  /\ \A p \in Procs :
       pc[p] = "commit_run" => migration[p].version \notin Range(rows)

\* C1 witness: run_migration_with_version of a version that was already
\* applied executed its up procedure and was refused by the primary key.
C1_Witness ==
  \E p \in Procs :
    /\ Returned(p)
    /\ op[p] = "run_migration_with_version"
    /\ ver[p] \in Range(pre[p].rows)
    /\ attempted[p] = <<ver[p]>>
    /\ result[p] = "QueryExecutionError"
    /\ fault[p] = "none"

\* C2: when run_pending_migrations returns after the apply of the i-th
\* pending unit failed, it returns an error, the first i-1 pending units are
\* committed and recorded, the i-th left no row and no effect, and no later
\* unit was attempted.
C2_BatchStopsAtFailure ==
  \A p \in Procs :
    (/\ Returned(p)
     /\ op[p] = "run_pending_migrations"
     /\ attempted[p] # committed[p])
    => LET pend == PendingAtCall(p)
           i == Len(attempted[p])
       IN /\ result[p] # "Ok"
          /\ i <= Len(pend)
          /\ attempted[p] = SubSeq(pend, 1, i)
          /\ committed[p] = SubSeq(pend, 1, i - 1)
          /\ rows = pre[p].rows \o committed[p]
          /\ schema = pre[p].schema \o Ups(committed[p])

\* C2 witness: of three pending units the first committed, the second
\* failed and the third was never attempted.
C2_Witness ==
  \E p \in Procs :
    /\ Returned(p)
    /\ op[p] = "run_pending_migrations"
    /\ Len(PendingAtCall(p)) = 3
    /\ Len(attempted[p]) = 2
    /\ Len(committed[p]) = 1
    /\ rows = pre[p].rows \o committed[p]

\* C3: run_migration is atomic: a version is in the tracking table exactly
\* when the effects of its up procedure are durable, and after
\* run_migration_with_version returns, either it succeeded and both the up
\* procedure and the row were added, or it failed and the database is the
\* one before the call.
C3_ApplyAtomic ==
  /\ \A v \in Range(rows) \cup {schema[i][2] : i \in DOMAIN schema} :
       UpDurable(v) <=> v \in Range(rows)
  /\ \A p \in Procs :
       (Returned(p) /\ op[p] = "run_migration_with_version")
       => IF result[p] = "Ok"
            THEN /\ rows = pre[p].rows \o <<ver[p]>>
                 /\ schema = pre[p].schema \o <<<<"up", ver[p]>>>>
            ELSE /\ rows = pre[p].rows
                 /\ schema = pre[p].schema
                 /\ table_exists = pre[p].table_exists

\* C3 witness: the up procedure executed, the insert of the version failed,
\* and the call returned the error with the database as before the call.
C3_Witness ==
  \E p \in Procs :
    /\ Returned(p)
    /\ op[p] = "run_migration_with_version"
    /\ attempted[p] = <<ver[p]>>
    /\ result[p] = "QueryExecutionError"
    /\ fault[p] = "db"
    /\ pre[p].table_exists
    /\ schema = pre[p].schema

C5_Idempotent ==
  \A p \in Procs :
    (/\ op[p] = "run_pending_migrations"
     /\ last[p].op = "run_pending_migrations"
     /\ last[p].result = "Ok")
    => /\ attempted[p] = <<>>
       /\ pc[p] \notin {"run", "insert", "commit_run"}
       /\ txn[p] = NoTxn
       /\ rows = pre[p].rows
       /\ schema = pre[p].schema
       /\ table_exists = pre[p].table_exists
       /\ (Returned(p) /\ fault[p] = "none") => result[p] = "Ok"

\* C5 witness: the second of two successive calls returned Ok over a
\* tracking table of three rows.
C5_Witness ==
  \E p \in Procs :
    /\ Returned(p)
    /\ op[p] = "run_pending_migrations"
    /\ last[p].op = "run_pending_migrations"
    /\ last[p].result = "Ok"
    /\ result[p] = "Ok"
    /\ Len(rows) = 3

\* Every one of the N >= 1 units on disk is applied in the table rs, which
\* holds N rows.
AllApplied(rs) ==
  /\ DiskWellFormed
  /\ Len(DiskVersions) >= 1
  /\ Len(rs) = Len(DiskVersions)
  /\ Range(rs) = Range(DiskVersions)

\* C6: with all N units applied, a successful revert_latest_migration
\* removes exactly the row of the maximum version, keeps the other N-1 rows
\* and returns that version; the run_pending_migrations right after it
\* applies that version and no other.
C6_RevertLatestThenRun ==
  \A p \in Procs :
    /\ (/\ Returned(p)
        /\ op[p] = "revert_latest_migration"
        /\ result[p] = "Ok"
        /\ AllApplied(pre[p].rows))
       => /\ returned[p] = Max(Range(pre[p].rows))
          /\ rows = Without(pre[p].rows, returned[p])
          /\ Len(rows) = Len(pre[p].rows) - 1
          /\ schema = pre[p].schema \o <<<<"down", returned[p]>>>>
    /\ (/\ op[p] = "run_pending_migrations"
        /\ last[p].op = "revert_latest_migration"
        /\ last[p].result = "Ok"
        /\ AllApplied(last[p].rows))
       => /\ attempted[p] \in {<<>>, <<last[p].returned>>}
          /\ (Returned(p) /\ fault[p] = "none")
             => /\ result[p] = "Ok"
                /\ committed[p] = <<last[p].returned>>
                /\ rows = pre[p].rows \o <<last[p].returned>>
                /\ Range(rows) = Range(last[p].rows)

\* C6 witness: three units were applied, the latest was reverted, and the
\* following run_pending_migrations committed that version alone.
C6_Witness ==
  \E p \in Procs :
    /\ Returned(p)
    /\ op[p] = "run_pending_migrations"
    /\ last[p].op = "revert_latest_migration"
    /\ last[p].result = "Ok"
    /\ AllApplied(last[p].rows)
    /\ Len(last[p].rows) = 3
    /\ last[p].returned = 3
    /\ committed[p] = <<3>>

\* s is an initial segment of t.
IsPrefix(s, t) == Len(s) <= Len(t) /\ s = SubSeq(t, 1, Len(s))

C8_OkOnlyIfAllCommitted ==
  \A p \in Procs :
    (Returned(p) /\ op[p] = "run_pending_migrations")
    => /\ result[p] = "Ok"
          => /\ DiskWellFormed
             /\ VersionsOf(all_migrations[p]) = DiskVersions
             /\ Range(DiskVersions) \subseteq Range(rows)
             /\ attempted[p] = committed[p]
       /\ attempted[p] # committed[p] => result[p] # "Ok"

\* C8 witness: a call that had units to apply returned Ok with all of them
\* recorded, beside a hidden entry that is not a unit.
C8_Witness ==
  \E p \in Procs :
    /\ Returned(p)
    /\ op[p] = "run_pending_migrations"
    /\ result[p] = "Ok"
    /\ Len(DiskEntries) > Len(DiskUnits)
    /\ committed[p] = DiskVersions
    /\ Len(committed[p]) = 2

RevertOps == {"revert_latest_migration", "revert_migration_with_version"}

\* C9: revert_migration is atomic: until the transaction commits the
\* tracking table and the schema are those before the call; when the call
\* returns an error they still are, so a recorded version stays recorded;
\* when it returns Ok the down procedure and the removal of the row were
\* committed together.
C9_RevertAtomic ==
  \A p \in Procs :
    op[p] \in RevertOps
    => /\ pc[p] # "idle" => rows = pre[p].rows /\ schema = pre[p].schema
       /\ Returned(p)
          => IF result[p] = "Ok"
               THEN /\ schema = pre[p].schema \o <<<<"down", ver[p]>>>>
                    /\ rows = Without(pre[p].rows, ver[p])
               ELSE /\ rows = pre[p].rows
                    /\ schema = pre[p].schema

\* C9 witness: the down procedure of an applied version executed, the
\* delete of its row failed, and the version is still recorded.
C9_Witness ==
  \E p \in Procs :
    /\ Returned(p)
    /\ op[p] \in RevertOps
    /\ attempted[p] = <<ver[p]>>
    /\ ver[p] \in Range(pre[p].rows)
    /\ result[p] = "QueryExecutionError"
    /\ fault[p] = "db"
    /\ ver[p] \in Range(rows)

DiscoveryErrors ==
  {"MigrationDirectoryNotFound", "MalformedMigrationFolder", "FilesystemError"}

\* C10 as stated: a call that returns a discovery or parsing error leaves
\* the database exactly as it was before the call.
C10_NoMutationBeforeDiscovery ==
  \A p \in Procs :
    (Returned(p) /\ result[p] \in DiscoveryErrors)
    => /\ rows = pre[p].rows
       /\ schema = pre[p].schema
       /\ table_exists = pre[p].table_exists

\* C10 amended: a call that returns a discovery or parsing error has opened
\* no transaction and leaves the rows of the tracking table and the schema
\* as before the call; the one mutation that may precede discovery is the
\* creation of the still empty tracking table, by run_pending_migrations and
\* revert_latest_migration only.
C10_OnlyTableCreationBeforeDiscovery ==
  \A p \in Procs :
    (Returned(p) /\ result[p] \in DiscoveryErrors)
    => /\ rows = pre[p].rows
       /\ schema = pre[p].schema
       /\ attempted[p] = <<>>
       /\ table_exists # pre[p].table_exists
          => /\ op[p] \in {"run_pending_migrations", "revert_latest_migration"}
             /\ table_exists
             /\ rows = <<>>

\* C10 witness: run_pending_migrations returned a discovery error over a
\* tracking table that holds rows.
C10_Witness ==
  \E p \in Procs :
    /\ Returned(p)
    /\ op[p] = "run_pending_migrations"
    /\ result[p] \in DiscoveryErrors
    /\ rows # <<>>
    /\ rows = pre[p].rows

\* ------------------------------------------------- the filesystem changes
\* The units are read from disk at every call, so the directory may differ
\* from one call to the next.  A behaviour changes the directory it started
\* with once, between two calls (no connection is inside an operation):
\* here a folder of the migrations directory is deleted.
RemoveAt(seq, i) == SubSeq(seq, 1, i - 1) \o SubSeq(seq, i + 1, Len(seq))
delete_folder(i) ==
  /\ \A p \in Procs : pc[p] = "idle"
  /\ fs \in Filesystems
  /\ 0 < ncalls /\ ncalls < MaxCalls
  /\ DiskFound
  /\ i \in DOMAIN DiskEntries
  /\ LET d == search_for_migrations_directory(fs, fs.cwd).val
     IN fs' = [fs EXCEPT !.dirs[d] = RemoveAt(@, i)]
  /\ UNCHANGED <<codecvars,
                 dbvars, pc, op, ver, locals, result, returned, fault,
                 history>>

\* Between two calls the down.sql of a migration folder is deleted.
delete_down_sql(i) ==
  /\ \A p \in Procs : pc[p] = "idle"
  /\ fs \in Filesystems
  /\ 0 < ncalls /\ ncalls < MaxCalls
  /\ DiskFound
  /\ i \in DOMAIN DiskEntries
  /\ ~DiskEntries[i].dot
  /\ DiskEntries[i].down
  /\ LET d == search_for_migrations_directory(fs, fs.cwd).val
     IN fs' = [fs EXCEPT !.dirs[d][i].down = FALSE]
  /\ UNCHANGED <<codecvars,
                 dbvars, pc, op, ver, locals, result, returned, fault,
                 history>>

\* One connection drives the engine over a directory that changes between
\* its calls.
NextFs ==
  \/ Step(1)
  \/ \E i \in DOMAIN DiskEntries : delete_folder(i)
  \/ \E i \in DOMAIN DiskEntries : delete_down_sql(i)

SpecFs == Init /\ [][NextFs]_vars

\* The migrations directory a call finds in filesystem f: its entries, the
\* entries that are not hidden, whether all of these are well formed, and
\* their versions.
EntriesIn(f) ==
  IF search_for_migrations_directory(f, f.cwd).ok
    THEN f.dirs[search_for_migrations_directory(f, f.cwd).val]
    ELSE <<>>
UnitsIn(f) == SelectSeq(EntriesIn(f), LAMBDA e : ~e.dot)
IsWellFormed(e) == e.ver # 0 /\ e.up /\ e.down
VersionsIn(f) == [i \in DOMAIN UnitsIn(f) |-> UnitsIn(f)[i].ver]

\* C11: when a non-hidden entry of the migrations directory is malformed,
\* run_pending_migrations opens no transaction and executes no up
\* procedure, leaves the tracking rows and the schema as before the call,
\* never returns Ok, and returns MalformedMigrationFolder unless the
\* database or the filesystem fails under it first.
C11_MalformedFolderAbortsAll ==
  \A p \in Procs :
    (/\ op[p] = "run_pending_migrations"
     /\ search_for_migrations_directory(pre[p].fs, pre[p].fs.cwd).ok
     /\ \E e \in Range(UnitsIn(pre[p].fs)) : ~IsWellFormed(e))
    => /\ attempted[p] = <<>>
       /\ txn[p] = NoTxn
       /\ (pc[p] # "idle" \/ Returned(p))
          => rows = pre[p].rows /\ schema = pre[p].schema
       /\ Returned(p) => result[p] # "Ok"
       /\ (Returned(p) /\ fault[p] = "none")
          => result[p] = "MalformedMigrationFolder"

\* C11 witness: a folder lost its down.sql between two calls; the second
\* run_pending_migrations returned MalformedMigrationFolder over a tracking
\* table that holds rows, with a well-formed unit still pending.
C11_Witness ==
  \E p \in Procs :
    /\ Returned(p)
    /\ op[p] = "run_pending_migrations"
    /\ result[p] = "MalformedMigrationFolder"
    /\ rows # <<>>
    /\ rows = pre[p].rows
    /\ \E e \in Range(UnitsIn(pre[p].fs)) :
         IsWellFormed(e) /\ e.ver \notin Range(rows)

\* C12: revert_latest_migration over an empty tracking table goes no
\* further than latest_run_migration_version: it looks up no unit, opens no
\* transaction, executes no down procedure, returns an error, and the
\* tracking table stays empty.
C12_RevertLatestOnEmpty ==
  \A p \in Procs :
    (op[p] = "revert_latest_migration" /\ pre[p].rows = <<>>)
    => /\ pc[p] \in {"create", "latest", "idle"}
       /\ attempted[p] = <<>>
       /\ txn[p] = NoTxn
       /\ (pc[p] # "idle" \/ Returned(p))
          => rows = <<>> /\ schema = pre[p].schema
       /\ Returned(p) => result[p] # "Ok" /\ returned[p] = 0

\* C12 witness: every applied migration was reverted, and a further
\* revert_latest_migration returned the error of the empty max(version).
C12_Witness ==
  \E p \in Procs :
    /\ Returned(p)
    /\ op[p] = "revert_latest_migration"
    /\ pre[p].rows = <<>>
    /\ pre[p].table_exists
    /\ schema # <<>>
    /\ fault[p] = "none"
    /\ result[p] = "QueryExecutionError"

SingleVersionOps ==
  {"run_migration_with_version", "revert_migration_with_version",
   "revert_latest_migration"}

\* C13: a single-version operation whose target version has no unit in the
\* migrations directory (for revert_latest_migration: the folder of the
\* latest applied version is gone) opens no transaction, executes no
\* procedure, leaves the tracking rows and the schema as before the call,
\* never returns Ok, and over a readable, well-formed directory returns
\* UnknownMigrationVersion carrying the requested version.
C13_UnknownVersion ==
  \A p \in Procs :
    (/\ op[p] \in SingleVersionOps
     /\ ver[p] # 0
     /\ ver[p] \notin Range(VersionsIn(pre[p].fs)))
    => /\ attempted[p] = <<>>
       /\ txn[p] = NoTxn
       /\ (pc[p] # "idle" \/ Returned(p))
          => rows = pre[p].rows /\ schema = pre[p].schema
       /\ Returned(p) => result[p] # "Ok"
       /\ (/\ Returned(p)
           /\ fault[p] = "none"
           /\ search_for_migrations_directory(pre[p].fs, pre[p].fs.cwd).ok
           /\ \A e \in Range(UnitsIn(pre[p].fs)) : IsWellFormed(e))
          => result[p] = "UnknownMigrationVersion" /\ returned[p] = ver[p]

\* C13 witness: the folder of the latest applied version was deleted after
\* it was applied; revert_latest_migration returned
\* UnknownMigrationVersion of that version, whose row is still there.
C13_Witness ==
  \E p \in Procs :
    /\ Returned(p)
    /\ op[p] = "revert_latest_migration"
    /\ result[p] = "UnknownMigrationVersion"
    /\ returned[p] = Max(Range(rows))
    /\ rows = pre[p].rows
    /\ Len(rows) >= 2

\* ---------------------------------------------------- concurrent callers
\* The statements of run_pending_migrations on connection p.
StepPending(p) ==
  \/ run_pending_migrations(p)
  \/ create_schema_migrations_table_if_needed(p)
  \/ previously_run_migration_versions(p)
  \/ find_migrations_directory(p)
  \/ read_pending_migrations(p)
  \/ run_migrations(p)
  \/ migration_run(p)
  \/ insert_version(p)
  \/ commit_run(p)

\* Two connections call run_pending_migrations on the same database and the
\* same directory; their statements interleave in any order.
NextConcurrent == \E p \in Procs : StepPending(p)

SpecConcurrent == Init /\ [][NextConcurrent]_vars

Last(sq) == sq[Len(sq)]
Front(sq) == SubSeq(sq, 1, Len(sq) - 1)

\* C14: when two run_pending_migrations calls interleave, every version is
\* committed to the tracking table at most once and its up procedure is
\* durable once; a connection whose apply failed without any injected
\* failure lost that version to a committed row: it returns
\* QueryExecutionError, its transaction is rolled back, and it attempted
\* nothing after it.
C14_RaceEndsOnPrimaryKey ==
  /\ \A i, j \in DOMAIN rows : rows[i] = rows[j] => i = j
  /\ schema = Ups(rows)
  /\ \A p \in Procs :
       (Returned(p) /\ attempted[p] # committed[p] /\ fault[p] = "none")
       => /\ result[p] = "QueryExecutionError"
          /\ txn[p] = NoTxn
          /\ committed[p] = Front(attempted[p])
          /\ Last(attempted[p]) \in Range(rows)
          /\ Last(attempted[p]) \notin already_run[p]

\* C14 witness: both connections found the same version pending and
\* executed its up procedure; one committed it, the other was refused by the
\* primary key and returned QueryExecutionError with later units pending.
C14_Witness ==
  \E p, q \in Procs :
    /\ p # q
    /\ DiskDistinct
    /\ op[p] = "run_pending_migrations" /\ op[q] = "run_pending_migrations"
    /\ Returned(p)
    /\ result[p] = "QueryExecutionError"
    /\ fault[p] = "none"
    /\ Last(attempted[p]) \in Range(committed[q])
    /\ Last(attempted[p]) \notin already_run[p]
    /\ pending_migrations[p] # <<>>

\* The versions that more than one non-hidden folder of f's migrations
\* directory carries.
DuplicatedIn(f) ==
  {v \in Range(VersionsIn(f)) :
     \E i, j \in DOMAIN VersionsIn(f) :
       i # j /\ VersionsIn(f)[i] = v /\ VersionsIn(f)[j] = v}

\* C15: when two non-hidden folders carry the same version, enumeration
\* fails before any unit is applied, so run_pending_migrations never opens
\* a transaction for, and never executes the up procedure of, a folder
\* with a duplicated version.
C15_DuplicateVersionsRejected ==
  \A p \in Procs :
    (op[p] = "run_pending_migrations" /\ DuplicatedIn(pre[p].fs) # {})
    => Range(attempted[p]) \cap DuplicatedIn(pre[p].fs) = {}

\* ------------------------------------------------- the directory search
\* Every path of at most MaxDepth components, and the filesystems in which
\* at most MaxMigrationsDirs of them hold a migrations directory.
RECURSIVE PathsOfLength(_)
PathsOfLength(n) ==
  IF n = 0 THEN {Root}
  ELSE {Append(q, c) : q \in PathsOfLength(n - 1), c \in {"a", "b"}}
Paths == UNION {PathsOfLength(n) : n \in 0..MaxDepth}
SearchedFilesystems ==
  {[cwd |-> start, dirs |-> [d \in D |-> <<>>]] :
     start \in Paths,
     D \in {X \in SUBSET Paths : Cardinality(X) <= MaxMigrationsDirs}}

InitSearch ==
  /\ fs \in SearchedFilesystems
  /\ table_exists = FALSE
  /\ rows = <<>>
  /\ schema = <<>>
  /\ pc = [p \in Procs |-> "idle"]
  /\ op = [p \in Procs |-> "none"]
  /\ ver = [p \in Procs |-> 0]
  /\ already_run = [p \in Procs |-> {}]
  /\ migrations_dir = [p \in Procs |-> NoDir]
  /\ all_migrations = [p \in Procs |-> <<>>]
  /\ pending_migrations = [p \in Procs |-> <<>>]
  /\ migration = [p \in Procs |-> NoMigration]
  /\ txn = [p \in Procs |-> NoTxn]
  /\ result = [p \in Procs |-> "none"]
  /\ returned = [p \in Procs |-> 0]
  /\ pre = [p \in Procs |-> [table_exists |-> FALSE, rows |-> <<>>,
                             schema |-> <<>>, fs |-> fs]]
  /\ attempted = [p \in Procs |-> <<>>]
  /\ committed = [p \in Procs |-> <<>>]
  /\ fault = [p \in Procs |-> "none"]
  /\ last = [p \in Procs |-> [op |-> "none", result |-> "none",
                              returned |-> 0, rows |-> <<>>]]
  /\ ncalls = 0
  /\ out = <<>>
  /\ is_null = "none"
  /\ to_sql_calls = <<>>
  /\ out_before = <<>>

\* search_for_migrations_directory(fs.cwd) is called and returns.
search_call(p) ==
  /\ pc[p] = "idle"
  /\ op[p] = "none"
  /\ LET dir == search_for_migrations_directory(fs, fs.cwd)
     IN /\ migrations_dir' = [migrations_dir EXCEPT ![p] =
                                IF dir.ok THEN dir.val ELSE NoDir]
        /\ result' = [result EXCEPT ![p] = IF dir.ok THEN "Ok" ELSE dir.err]
  /\ op' = [op EXCEPT ![p] = "search_for_migrations_directory"]
  /\ UNCHANGED <<codecvars,
                 fsvars, dbvars, pc, ver, already_run, all_migrations,
                 pending_migrations, migration, txn, returned, fault,
                 history>>

NextSearch == search_call(1)

SpecSearch == InitSearch /\ [][NextSearch]_vars

\* The path and its ancestors, and those of them that hold a migrations
\* directory.
Ancestors(path) == {SubSeq(path, 1, k) : k \in 0..Len(path)}
Candidates(f) == Ancestors(f.cwd) \cap DOMAIN f.dirs

TargetOnDisk(p) ==
  /\ ver[p] \in Range(VersionsIn(pre[p].fs))
  /\ \A e \in Range(UnitsIn(pre[p].fs)) : IsWellFormed(e)

\* C17: run_migration_with_version(v) for an on-disk version v that is
\* already recorded never returns Ok and leaves the tracking rows and the
\* schema as before the call; when nothing else fails under it, it executes
\* v's up procedure in a transaction, the insert of v is refused
\* (QueryExecutionError), and the transaction is rolled back.
C17_RunAppliedVersionFails ==
  \A p \in Procs :
    (/\ op[p] = "run_migration_with_version"
     /\ ver[p] \in Range(pre[p].rows)
     /\ TargetOnDisk(p))
    => /\ committed[p] = <<>>
       /\ pc[p] # "commit_run"
       /\ Returned(p)
          => /\ result[p] # "Ok"
             /\ rows = pre[p].rows
             /\ schema = pre[p].schema
             /\ txn[p] = NoTxn
       /\ (Returned(p) /\ fault[p] = "none")
          => /\ attempted[p] = <<ver[p]>>
             /\ result[p] = "QueryExecutionError"

\* C17 witness: with two versions recorded, run_migration_with_version of
\* the earlier one executed its up procedure, was refused at the insert and
\* left the rows and the schema as they were.
C17_Witness ==
  \E p \in Procs :
    /\ Returned(p)
    /\ op[p] = "run_migration_with_version"
    /\ Len(pre[p].rows) >= 2
    /\ ver[p] = pre[p].rows[1]
    /\ TargetOnDisk(p)
    /\ attempted[p] = <<ver[p]>>
    /\ result[p] = "QueryExecutionError"
    /\ fault[p] = "none"
    /\ rows = pre[p].rows
    /\ schema = pre[p].schema

\* revert_migration_with_version on p names an on-disk version that was not
\* recorded when the call started.
RevertOfUnapplied(p) ==
  /\ op[p] = "revert_migration_with_version"
  /\ ver[p] \notin Range(pre[p].rows)
  /\ TargetOnDisk(p)

\* C18 as stated: revert_migration_with_version(v) for an on-disk version v
\* that is not recorded, when the down procedure succeeds and nothing fails
\* under it, commits the down procedure, returns Ok and leaves the tracking
\* rows unchanged.
C18_RevertUnappliedReturnsOk ==
  \A p \in Procs :
    (RevertOfUnapplied(p) /\ Returned(p) /\ fault[p] = "none")
    => /\ result[p] = "Ok"
       /\ rows = pre[p].rows
       /\ schema = Append(pre[p].schema, <<"down", ver[p]>>)

\* C18 amended: the same holds provided the tracking table exists; when it
\* does not, the delete fails with QueryExecutionError and the transaction
\* is rolled back, the down procedure with it.  Whenever the call returns
\* Ok, the down procedure is committed and the rows are unchanged.
C18_RevertUnappliedOkIfTableExists ==
  \A p \in Procs :
    (RevertOfUnapplied(p) /\ Returned(p))
    => /\ rows = pre[p].rows
       /\ result[p] = "Ok"
          => /\ pre[p].table_exists
             /\ schema = Append(pre[p].schema, <<"down", ver[p]>>)
             /\ committed[p] = <<ver[p]>>
       /\ result[p] # "Ok" => schema = pre[p].schema
       /\ fault[p] = "none"
          => /\ attempted[p] = <<ver[p]>>
             /\ result[p] = IF pre[p].table_exists THEN "Ok"
                                                   ELSE "QueryExecutionError"

\* C18 witness: with another version recorded, the revert of a version that
\* is not recorded returned Ok, its down procedure is committed and the
\* rows are as before.
C18_Witness ==
  \E p \in Procs :
    /\ RevertOfUnapplied(p)
    /\ Returned(p)
    /\ result[p] = "Ok"
    /\ rows # <<>>
    /\ rows = pre[p].rows
    /\ schema = Append(pre[p].schema, <<"down", ver[p]>>)

\* The positions of the entries of f's migrations directory that are not
\* hidden, in read_dir order, and the versions only hidden entries carry.
VisibleIndices(f) ==
  SelectSeq([i \in DOMAIN EntriesIn(f) |-> i],
            LAMBDA i : ~EntriesIn(f)[i].dot)
HiddenOnly(f) ==
  {EntriesIn(f)[i].ver : i \in {j \in DOMAIN EntriesIn(f) : EntriesIn(f)[j].dot}}
    \ (Range(VersionsIn(f)) \cup {0})

\* C19: enumeration skips every entry whose name starts with "." and parses
\* every other entry: the units it yields are exactly the entries that are
\* not hidden, in order; MalformedMigrationFolder is returned only for an
\* entry that is not hidden; no procedure of a version that only a hidden
\* entry carries is executed; and a single-version lookup of such a version
\* ends in UnknownMigrationVersion.
C19_HiddenEntriesSkipped ==
  \A p \in Procs :
    /\ all_migrations[p] # <<>>
       => /\ [i \in DOMAIN all_migrations[p] |-> all_migrations[p][i].path]
               = VisibleIndices(pre[p].fs)
          /\ VersionsOf(all_migrations[p]) = VersionsIn(pre[p].fs)
          /\ \A e \in Range(UnitsIn(pre[p].fs)) : IsWellFormed(e)
    /\ (Returned(p) /\ result[p] = "MalformedMigrationFolder")
       => \E e \in Range(UnitsIn(pre[p].fs)) : ~IsWellFormed(e)
    /\ Range(attempted[p]) \cap HiddenOnly(pre[p].fs) = {}
    /\ (/\ op[p] \in {"run_migration_with_version",
                      "revert_migration_with_version"}
        /\ ver[p] \in HiddenOnly(pre[p].fs)
        /\ Returned(p)
        /\ fault[p] = "none")
       => result[p] = "UnknownMigrationVersion"

\* C19 witness: the directory holds a hidden entry that would not parse and
\* a hidden folder that would; run_migration_with_version of the hidden
\* folder's version enumerated the other folders and returned
\* UnknownMigrationVersion.
C19_Witness ==
  \E p \in Procs :
    /\ Returned(p)
    /\ op[p] = "run_migration_with_version"
    /\ ver[p] \in HiddenOnly(pre[p].fs)
    /\ \E e \in Range(EntriesIn(pre[p].fs)) : e.dot /\ ~IsWellFormed(e)
    /\ Len(all_migrations[p]) = 2
    /\ result[p] = "UnknownMigrationVersion"

\* ------------------------------------------------------- the value codec
\* write_i16/i32/i64::<BigEndian> with the low byte first.
RECURSIVE LittleEndian(_, _)
LittleEndian(x, nbytes) ==
  IF nbytes = 0 THEN <<>>
  ELSE <<x % 256>> \o LittleEndian(x \div 256, nbytes - 1)

\* write_i16/i32/i64::<BigEndian>(x): the nbytes bytes of x, the most
\* significant first; byte k from the right is (x >> 8k) & 0xff, the shift
\* being arithmetic.
RECURSIVE BigEndian(_, _)
BigEndian(x, nbytes) ==
  IF nbytes = 0 THEN <<>>
  ELSE Append(BigEndian(x \div 256, nbytes - 1), x % 256)

\* The bytes to_sql writes for a value of each type.  An i64 is held as its
\* two 32-bit words <<high, low>>, each as a signed 32-bit number.
Encoding(ty, x) ==
  CASE ty = "i16" -> BigEndian(x, 2)
    [] ty = "i32" -> BigEndian(x, 4)
    [] ty = "i64" -> BigEndian(x[1], 4) \o BigEndian(x[2], 4)
\* The 32-bit words of a value.
Words(ty, x) == IF ty = "i64" THEN x ELSE <<x>>

\* The values to_sql is called with: the extremes of each type, 0, 1, -1
\* and values all of whose bytes differ.
SmallInts == {-32767 - 1, -1, 0, 1, 258, 32767}
Integers32 == {-2147483647 - 1, -1, 0, 1, 16909060, 2147483647}
BigInts ==
  {<<-2147483647 - 1, 0>>, <<-1, -1>>, <<0, 0>>, <<0, 1>>, <<0, -1>>,
   <<16909060, 84281096>>, <<2147483647, -1>>}

\* to_sql(&x, out) for a value x of type ty: the write either completes and
\* to_sql returns IsNull::No, or the writer fails after accepting fewer
\* bytes and to_sql returns Err; nothing is written to a writer that failed.
to_sql(ty, x) ==
  /\ is_null # "Err"
  /\ Len(to_sql_calls) < MaxWrites
  /\ out_before' = out
  /\ \/ /\ out' = out \o Encoding(ty, x)
        /\ is_null' = "No"
        /\ to_sql_calls' = Append(to_sql_calls,
                                [ty |-> ty, x |-> Words(ty, x)])
     \/ /\ \E k \in 0..(Len(Encoding(ty, x)) - 1) :
             out' = out \o SubSeq(Encoding(ty, x), 1, k)
        /\ is_null' = "Err"
        /\ UNCHANGED to_sql_calls
  /\ UNCHANGED <<fsvars, dbvars, pc, op, ver, locals, result, returned,
                 fault, history>>

to_sql_i16(x) == to_sql("i16", x)
to_sql_i32(x) == to_sql("i32", x)
to_sql_i64(x) == to_sql("i64", x)

InitCodec == Init /\ fs.cwd = Root

NextCodec ==
  \/ \E x \in SmallInts : to_sql_i16(x)
  \/ \E x \in Integers32 : to_sql_i32(x)
  \/ \E x \in BigInts : to_sql_i64(x)

SpecCodec == InitCodec /\ [][NextCodec]_vars

\* The number a sequence of bytes denotes in big-endian two's complement:
\* the first byte carries the sign.
TwosComplement(bytes) ==
  LET value[i \in 1..Len(bytes)] ==
        IF i = 1 THEN (IF bytes[1] >= 128 THEN bytes[1] - 256 ELSE bytes[1])
        ELSE value[i - 1] * 256 + bytes[i]
  IN value[Len(bytes)]
Width(ty) == CASE ty = "i16" -> 2 [] ty = "i32" -> 4 [] ty = "i64" -> 8
\* bytes is the encoding of the value of type ty with the words x.  For an
\* i64 the first four bytes denote its high word and the last four, read
\* as a signed word, its low word.
Represents(ty, x, bytes) ==
  /\ Len(bytes) = Width(ty)
  /\ \A i \in DOMAIN bytes : bytes[i] \in 0..255
  /\ IF ty = "i64"
       THEN /\ TwosComplement(SubSeq(bytes, 1, 4)) = x[1]
            /\ TwosComplement(SubSeq(bytes, 5, 8)) = x[2]
       ELSE TwosComplement(bytes) = x[1]
\* Where the bytes of the k-th successful call start in the writer.
RECURSIVE OffsetOf(_)
OffsetOf(k) ==
  IF k = 1 THEN 0 ELSE OffsetOf(k - 1) + Width(to_sql_calls[k - 1].ty)
TestValues(ty) == <<[ty |-> ty, x |-> <<1>>], [ty |-> ty, x |-> <<0>>],
                    [ty |-> ty, x |-> <<-1>>]>>

\* C20: every to_sql call that returns Ok returns IsNull::No and appends
\* exactly 2, 4 or 8 bytes for an i16, i32 or i64, the big-endian two's
\* complement encoding of its value, after the bytes of the calls before it
\* and without changing them; 1, 0 and -1 as i16 yield 0,1,0,0,255,255 and
\* as i32 yield 0,0,0,1,0,0,0,0,255,255,255,255.
C20_BigEndianAppend ==
  /\ IsPrefix(out_before, out)
  /\ \A k \in DOMAIN to_sql_calls :
       Represents(to_sql_calls[k].ty, to_sql_calls[k].x,
                  SubSeq(out, OffsetOf(k) + 1,
                         OffsetOf(k) + Width(to_sql_calls[k].ty)))
  /\ (is_null # "Err" /\ to_sql_calls # <<>>) => is_null = "No"
  /\ is_null = "No"
     => /\ to_sql_calls # <<>>
        /\ Len(out_before) = OffsetOf(Len(to_sql_calls))
        /\ Len(out) = OffsetOf(Len(to_sql_calls) + 1)
  /\ is_null = "Err"
     => Len(out) - Len(out_before) < 8
  /\ (is_null = "No" /\ to_sql_calls = TestValues("i16"))
     => out = <<0, 1, 0, 0, 255, 255>>
  /\ (is_null = "No" /\ to_sql_calls = TestValues("i32"))
     => out = <<0, 0, 0, 1, 0, 0, 0, 0, 255, 255, 255, 255>>

\* C20 witness: three calls of different widths returned IsNull::No, the
\* smallest i16, an i32 whose four bytes differ and the largest i64; the
\* writer holds their 2, 4 and 8 bytes in call order.
C20_Witness ==
  /\ is_null = "No"
  /\ to_sql_calls = <<[ty |-> "i16", x |-> <<-32767 - 1>>],
                      [ty |-> "i32", x |-> <<16909060>>],
                      [ty |-> "i64", x |-> <<2147483647, -1>>]>>
  /\ out = <<128, 0>> \o <<1, 2, 3, 4>>
             \o <<127, 255, 255, 255, 255, 255, 255, 255>>

====
